---- MODULE Spec2Model ----
(***************************************************************************)
(* bikecmd: the `tcalibrate` subcommand of src/src/main.rs.                *)
(*                                                                         *)
(* main calls temp_calibrate, which calls temp_calibrate_run in a loop     *)
(* with a retry counter.  One call of temp_calibrate_run opens the serial  *)
(* port, builds the frame, decides the fault injection, writes the frame,  *)
(* reads the answer and classifies it.  The state below holds the locals   *)
(* of the three functions, the program counter, the standard output, and   *)
(* what the serial link sees (handles open, frames written, reads done).   *)
(***************************************************************************)
EXTENDS Integers, Sequences, FiniteSets, TLC

\* ------------------------------------------------------------------------
\* Program constants
\* ------------------------------------------------------------------------
OPCODE_ACK == 186

OPCODE_NACK == 170

MAX_TX_RETRIES == 3

\* let mut buf = [0; 100]
BufLen == 100

\* the values of a u8 (rng.random::<u8>(), retries) and of a u16 (checksum)
U8Mod == 256

U16Mod == 65536

U8 == 0 .. (U8Mod - 1)

\* ------------------------------------------------------------------------
\* Bounds and input sets
\* ------------------------------------------------------------------------
\* The longest short answer the device sends (answers of BufLen and
\* BufLen + 1 bytes are also tried).
MaxResponseLen == 2

\* args.current_temperature: the i16 extremes, values around 0, the value of
\* the README example, and two values whose XMODEM checksum is 65526 or more
\* (-3950 has checksum 65526, -29276 has checksum 65535).
Temperatures == {-32768, -29276, -3950, -1, 205, 32767}

None == -1

\* args.fakeissue: None, or Some(p) with p in 0..=100
Probabilities == {None, 0, 50, 100}

\* first byte of the device's answer: ACK, NACK, something else
ResponseBytes == {OPCODE_ACK, OPCODE_NACK, 0}

ResponseLens == (0 .. MaxResponseLen) \cup {BufLen, BufLen + 1}

\* serialport::ErrorKind of a failed open()
SerialErrorKinds == {"NoDevice", "InvalidInput", "Unknown", "Io"}

\* std::io::ErrorKind of a failed write_all()/read(); "NotFound" stands for
\* the errors the operating system gives once the device has gone away.
IoErrorKinds == {"TimedOut", "NotFound"}

\* ------------------------------------------------------------------------
\* BikecmdError and Result<(), BikecmdError>
\* ------------------------------------------------------------------------
ErrIo(k) == [variant |-> "Io", kind |-> k, arg |-> 0]

ErrSerial(k) == [variant |-> "Serial", kind |-> k, arg |-> 0]

ErrProto(k, n) == [variant |-> "BikecomputerProto", kind |-> k, arg |-> n]

ErrRetryStalled(n) == [variant |-> "RetryStalled", kind |-> "", arg |-> n]

NoError == [variant |-> "", kind |-> "", arg |-> 0]

Pending == [tag |-> "Pending", err |-> NoError]

Ok == [tag |-> "Ok", err |-> NoError]

Err(e) == [tag |-> "Err", err |-> e]

\* ------------------------------------------------------------------------
\* Bit arithmetic
\* ------------------------------------------------------------------------
RECURSIVE Xor(_, _)
Xor(a, b) ==
    IF a = 0 THEN b
    ELSE IF b = 0 THEN a
    ELSE ((a + b) % 2) + 2 * Xor(a \div 2, b \div 2)

\* i16::to_le_bytes / u16::to_le_bytes
U16LeBytes(u) == << u % 256, u \div 256 >>

I16LeBytes(t) == U16LeBytes(t % U16Mod)

\* ------------------------------------------------------------------------
\* crc16::State::<crc16::XMODEM>::calculate: table driven, polynomial
\* 0x1021, initial value 0, no reflection, no final xor.
\* ------------------------------------------------------------------------
XmodemPoly == 4129

RECURSIVE CrcShift(_, _)
CrcShift(r, n) ==
    IF n = 0 THEN r
    ELSE CrcShift(IF r >= 32768
                  THEN Xor((2 * r) % U16Mod, XmodemPoly)
                  ELSE (2 * r) % U16Mod, n - 1)

CrcTable(i) == CrcShift(i * 256, 8)

CrcUpdate(state, byte) ==
    Xor((state * 256) % U16Mod, CrcTable(Xor(state \div 256, byte) % 256))

RECURSIVE CrcFold(_, _)
CrcFold(state, bytes) ==
    IF bytes = << >> THEN state
    ELSE CrcFold(CrcUpdate(state, Head(bytes)), Tail(bytes))

Crc16Xmodem(bytes) == CrcFold(0, bytes)

\* ------------------------------------------------------------------------
\* The device's answer: `len` bytes, the first one `first`, then 1, 2, ...
\* port.read(&mut buf) gives at most BufLen of them.
\* ------------------------------------------------------------------------
Response(len, first) ==
    [i \in 1 .. len |-> IF i = 1 THEN first ELSE (i - 1) % U8Mod]

Min(a, b) == IF a <= b THEN a ELSE b

\* ------------------------------------------------------------------------
\* State
\* ------------------------------------------------------------------------
VARIABLES
    args,           \* TemperatureCalibrateArgs: current_temperature, fakeissue
    pc,             \* where the program is
    retries,        \* temp_calibrate: let mut retries
    run_result,     \* what temp_calibrate_run returned to the match
    result,         \* what temp_calibrate returned to main
    port,           \* number of open handles of the serial port
    message,        \* temp_calibrate_run: the frame under construction
    checksum,       \* temp_calibrate_run: let mut checksum (u16)
    random_value,   \* the draw of this attempt (None: no draw)
    fakeissue,      \* temp_calibrate_run: let fakeissue
    read_bytes,     \* temp_calibrate_run: let read_bytes
    received,       \* temp_calibrate_run: let received
    tx,             \* bytes the link got through the handle now open
    stdout,         \* the lines printed so far
    attempts,       \* calls of temp_calibrate_run so far
    opens,          \* handles opened so far
    writes,         \* frames written so far
    reads,          \* reads done so far
    acks,           \* reads that gave exactly the one byte ACK so far
    exit_status     \* the process's exit status (None: still running)

vars == << args, pc, retries, run_result, result, port, message, checksum,
           random_value, fakeissue, read_bytes, received, tx, stdout,
           attempts, opens, writes, reads, acks, exit_status >>

locals == << message, checksum, random_value, fakeissue, read_bytes, received >>

counters == << attempts, opens, writes, reads, acks >>

outer == << args, retries, result, stdout, exit_status >>

Line(text, e, n) == [text |-> text, err |-> e, n |-> n]

Init ==
    /\ args \in [current_temperature : Temperatures, fakeissue : Probabilities]
    /\ pc = "loop"
    /\ retries = MAX_TX_RETRIES
    /\ run_result = Pending
    /\ result = Pending
    /\ port = 0
    /\ message = << >>
    /\ checksum = 0
    /\ random_value = None
    /\ fakeissue = FALSE
    /\ read_bytes = 0
    /\ received = << >>
    /\ tx = << >>
    /\ stdout = << >>
    /\ attempts = 0
    /\ opens = 0
    /\ writes = 0
    /\ reads = 0
    /\ acks = 0
    /\ exit_status = None

\* ------------------------------------------------------------------------
\* temp_calibrate_run returns r: its locals go out of scope and the port
\* handle it holds (`held` of them) is dropped, which closes it.
\* ------------------------------------------------------------------------
\* faulty variant: the handle is leaked instead of dropped
DropPortLeak(held) == port

DropPort(held) == port - held

\* faulty variant: the frame and the fault decision outlive the attempt
ReturnKeepsFrame(r, held) ==
    /\ pc' = "match"
    /\ run_result' = r
    /\ port' = DropPort(held)
    /\ tx' = << >>
    /\ random_value' = None
    /\ read_bytes' = 0
    /\ received' = << >>
    /\ UNCHANGED << message, checksum, fakeissue >>

Return(r, held) ==
    /\ pc' = "match"
    /\ run_result' = r
    /\ port' = DropPort(held)
    /\ tx' = << >>
    /\ message' = << >>
    /\ checksum' = 0
    /\ random_value' = None
    /\ fakeissue' = FALSE
    /\ read_bytes' = 0
    /\ received' = << >>

\* temp_calibrate, lines 119-121: top of the loop, call of temp_calibrate_run
LoopTop ==
    /\ pc = "loop"
    /\ stdout' = Append(stdout, Line("Sending calibration data...", NoError, 0))
    /\ attempts' = attempts + 1
    /\ pc' = "open"
    /\ UNCHANGED << args, retries, run_result, result, port, locals, tx,
                    opens, writes, reads, acks, exit_status >>

\* temp_calibrate_run, lines 143-145: open the port, `?` on failure
OpenOk ==
    /\ pc = "open"
    /\ port' = port + 1
    /\ opens' = opens + 1
    /\ pc' = "frame"
    /\ UNCHANGED << outer, run_result, locals, tx, attempts, writes, reads, acks >>

OpenErr ==
    /\ pc = "open"
    /\ \E k \in SerialErrorKinds : Return(Err(ErrSerial(k)), 0)
    /\ UNCHANGED << outer, counters >>

\* lines 148-156: the frame without its checksum, and the checksum
\* faulty variant: the start marker is taken into the checksum
ChecksumInputWithStart(msg) == SubSeq(msg, 1, 4)

ChecksumInput(msg) == SubSeq(msg, 2, 4)

FrameHead(t) == << 255, 2 >> \o I16LeBytes(t)

BuildFrame ==
    /\ pc = "frame"
    /\ message' = FrameHead(args.current_temperature)
    /\ checksum' = Crc16Xmodem(ChecksumInput(message'))
    /\ pc' = "decide"
    /\ UNCHANGED << outer, run_result, port, random_value, fakeissue,
                    read_bytes, received, tx, counters >>

\* lines 159-166: decide if we want an error
RandomValue(r) == r % 100

\* faulty variant: the comparison is not strict
FakeIssueNotStrict(probability, value) == value <= probability

FakeIssue(probability, value) == value < probability

Decide ==
    /\ pc = "decide"
    /\ \/ /\ args.fakeissue = None
          /\ fakeissue' = FALSE
          /\ random_value' = None
       \/ /\ args.fakeissue # None
          /\ \E r \in U8 :
                /\ random_value' = RandomValue(r)
                /\ fakeissue' = FakeIssue(args.fakeissue, random_value')
    /\ pc' = "corrupt"
    /\ UNCHANGED << outer, run_result, port, message, checksum,
                    read_bytes, received, tx, counters >>

\* lines 168-171: checksum += 10 on a u16.  With overflow checks (the debug
\* profile) an overflow panics, without them (the release profile) it wraps.
Corrupted(c) == c + 10

Panic ==
    /\ pc' = "panicked"
    /\ exit_status' = 101
    /\ port' = DropPort(1)
    /\ tx' = << >>
    /\ UNCHANGED << args, retries, run_result, result, stdout, locals, counters >>

Corrupt ==
    /\ pc = "corrupt"
    /\ \/ /\ ~fakeissue
          /\ pc' = "append"
          /\ UNCHANGED << checksum, port, tx, exit_status >>
       \/ /\ fakeissue
          /\ Corrupted(checksum) < U16Mod
          /\ checksum' = Corrupted(checksum)
          /\ pc' = "append"
          /\ UNCHANGED << port, tx, exit_status >>
       \/ /\ fakeissue
          /\ Corrupted(checksum) >= U16Mod
          /\ checksum' = Corrupted(checksum) % U16Mod
          /\ pc' = "append"
          /\ UNCHANGED << port, tx, exit_status >>
    /\ UNCHANGED << args, retries, run_result, result, stdout, message,
                    random_value, fakeissue, read_bytes, received, counters >>

CorruptPanic ==
    /\ pc = "corrupt"
    /\ fakeissue
    /\ Corrupted(checksum) >= U16Mod
    /\ Panic

\* lines 174-175: the checksum's bytes are appended to the frame
ChecksumBytes(c) == U16LeBytes(c)

AppendChecksum ==
    /\ pc = "append"
    /\ message' = message \o ChecksumBytes(checksum)
    /\ random_value' = None
    /\ pc' = "write"
    /\ UNCHANGED << outer, run_result, port, checksum, fakeissue,
                    read_bytes, received, tx, counters >>

\* line 177: port.write_all(&message)?
\* faulty variant: the frame is written a second time before the read
WriteOkTwice ==
    /\ pc = "write"
    /\ tx' = tx \o message \o message
    /\ writes' = writes + 2
    /\ pc' = "read"
    /\ UNCHANGED << outer, run_result, port, locals, attempts, opens, reads, acks >>

WriteOk ==
    /\ pc = "write"
    /\ tx' = tx \o message
    /\ writes' = writes + 1
    /\ pc' = "read"
    /\ UNCHANGED << outer, run_result, port, locals, attempts, opens, reads, acks >>

WriteErr ==
    /\ pc = "write"
    /\ \E k \in IoErrorKinds : Return(Err(ErrIo(k)), 1)
    /\ UNCHANGED << outer, counters >>

\* lines 181-183: port.read(&mut buf)?, received = buf[0..read_bytes]
ReadOk ==
    /\ pc = "read"
    /\ \E len \in ResponseLens, first \in ResponseBytes :
          /\ read_bytes' = Min(len, BufLen)
          /\ received' = SubSeq(Response(len, first), 1, read_bytes')
    /\ reads' = reads + 1
    /\ acks' = IF received' = << OPCODE_ACK >> THEN acks + 1 ELSE acks
    /\ pc' = "classify"
    /\ UNCHANGED << outer, run_result, port, message, checksum, random_value,
                    fakeissue, tx, attempts, opens, writes >>

ReadErr ==
    /\ pc = "read"
    /\ \E k \in IoErrorKinds : Return(Err(ErrIo(k)), 1)
    /\ UNCHANGED << outer, counters >>

\* lines 185-201: the answer is classified
\* faulty variant: a NACK falls into the ACK arm
ClassifyNackOk(n, bytes) ==
    IF n # 1 THEN Err(ErrProto("Expected 1 ACK/NACK byte", n))
    ELSE IF bytes[1] \in {OPCODE_ACK, OPCODE_NACK} THEN Ok
    ELSE Err(ErrProto("ACK not received", bytes[1]))

\* faulty variant: the byte count is not checked, only the first byte is
ClassifyFirstByte(n, bytes) ==
    IF n = 0 THEN Err(ErrProto("Expected 1 ACK/NACK byte", n))
    ELSE IF bytes[1] = OPCODE_ACK THEN Ok
    ELSE IF bytes[1] = OPCODE_NACK THEN Err(ErrProto("Received NACK", 0))
    ELSE Err(ErrProto("ACK not received", bytes[1]))

Classify(n, bytes) ==
    IF n # 1 THEN Err(ErrProto("Expected 1 ACK/NACK byte", n))
    ELSE IF bytes[1] = OPCODE_ACK THEN Ok
    ELSE IF bytes[1] = OPCODE_NACK THEN Err(ErrProto("Received NACK", 0))
    ELSE Err(ErrProto("ACK not received", bytes[1]))

ClassifyResponse ==
    /\ pc = "classify"
    /\ Return(Classify(read_bytes, received), 1)
    /\ UNCHANGED << outer, counters >>

\* ------------------------------------------------------------------------
\* temp_calibrate, lines 121-138: the match on the attempt's result
\* ------------------------------------------------------------------------
\* faulty variant: the guard names another serialport::ErrorKind
IsFatalWrongKind(e) == e.variant = "Serial" /\ e.kind = "InvalidInput"

\* faulty variant: an I/O error of a vanished device is taken as fatal too
IsFatalOrVanished(e) ==
    \/ e.variant = "Serial" /\ e.kind = "NoDevice"
    \/ e.variant = "Io" /\ e.kind = "NotFound"

IsFatal(e) == e.variant = "Serial" /\ e.kind = "NoDevice"

\* faulty variant: the counter is decremented twice per failure and wraps
DecrementTwice(r) == (r - 2) % U8Mod

Decrement(r) == (r - 1) % U8Mod

\* faulty variant: the error carries the counter, not the budget
StalledErrorRemaining(remaining) == ErrRetryStalled(remaining)

\* line 133: BikecmdError::RetryStalled(MAX_TX_RETRIES)
StalledError(remaining) == ErrRetryStalled(MAX_TX_RETRIES)

\* faulty variant: the budget is taken as spent one failure early
StalledOffByOne(r) == r <= 1

Stalled(r) == r = 0

MatchOk ==
    /\ pc = "match"
    /\ run_result = Ok
    /\ stdout' = Append(stdout, Line("Success", NoError, 0))
    /\ result' = Ok
    /\ run_result' = Pending
    /\ pc' = "returned"
    /\ UNCHANGED << args, retries, port, locals, tx, counters, exit_status >>

MatchFatal ==
    /\ pc = "match"
    /\ run_result.tag = "Err"
    /\ IsFatal(run_result.err)
    /\ result' = run_result
    /\ run_result' = Pending
    /\ pc' = "returned"
    /\ UNCHANGED << args, retries, stdout, port, locals, tx, counters, exit_status >>

MatchRetry ==
    /\ pc = "match"
    /\ run_result.tag = "Err"
    /\ ~IsFatal(run_result.err)
    /\ retries' = Decrement(retries)
    /\ run_result' = Pending
    /\ \/ /\ Stalled(retries')
          /\ stdout' = Append(stdout, Line("An error occurred", run_result.err, 0))
          /\ result' = Err(StalledError(retries'))
          /\ pc' = "returned"
       \/ /\ ~Stalled(retries')
          /\ stdout' = stdout \o << Line("An error occurred", run_result.err, 0),
                                    Line("Retrying", NoError, retries') >>
          /\ pc' = "loop"
          /\ UNCHANGED result
    /\ UNCHANGED << args, port, locals, tx, counters, exit_status >>

\* ------------------------------------------------------------------------
\* main, lines 99-103: the result is reported, main returns ()
\* ------------------------------------------------------------------------
\* faulty variant: main drops the error (`let _ = result`)
MainReportSilent ==
    /\ pc = "returned"
    /\ exit_status' = 0
    /\ pc' = "exit"
    /\ UNCHANGED << args, retries, run_result, result, stdout, port, locals,
                    tx, counters >>

MainReport ==
    /\ pc = "returned"
    /\ \/ /\ result = Ok
          /\ UNCHANGED stdout
       \/ /\ result.tag = "Err"
          /\ stdout' = Append(stdout, Line("Exiting", result.err, 0))
    /\ exit_status' = 0
    /\ pc' = "exit"
    /\ UNCHANGED << args, retries, run_result, result, port, locals, tx, counters >>

Next ==
    \/ LoopTop
    \/ OpenOk
    \/ OpenErr
    \/ BuildFrame
    \/ Decide
    \/ Corrupt
    \/ CorruptPanic
    \/ AppendChecksum
    \/ WriteOk
    \/ WriteErr
    \/ ReadOk
    \/ ReadErr
    \/ ClassifyResponse
    \/ MatchOk
    \/ MatchFatal
    \/ MatchRetry
    \/ MainReport

Spec == Init /\ [][Next]_vars

\* Every blocking call returns and the single thread keeps running.
FairSpec == Spec /\ WF_vars(Next)

\* ------------------------------------------------------------------------
\* Vocabulary of the properties
\* ------------------------------------------------------------------------
\* a write error, a read error or a protocol error
RetryableFailure(r) ==
    r.tag = "Err" /\ r.err.variant \in {"Io", "BikecomputerProto"}

DeviceUnavailable(r) == r = Err(ErrSerial("NoDevice"))

InRun == pc \in {"open", "frame", "decide", "corrupt", "append", "write",
                 "read", "classify"}

Ended == pc \in {"returned", "exit"}

\* ------------------------------------------------------------------------
\* C1: temp_calibrate_run is called at most 3 times.  An attempt that ends
\* in a write, read or protocol error is followed by the next attempt when
\* it was the 1st or the 2nd one, and by the return of RetryStalled, with
\* no further attempt, when it was the 3rd one.
\* ------------------------------------------------------------------------
C1_Step ==
    /\ attempts' <= MAX_TX_RETRIES
    /\ (pc = "match" /\ RetryableFailure(run_result)) =>
          IF attempts < MAX_TX_RETRIES
          THEN pc' = "loop" /\ result' = Pending /\ attempts' = attempts
          ELSE /\ pc' = "returned"
               /\ result' = Err(ErrRetryStalled(MAX_TX_RETRIES))
               /\ attempts' = attempts
    /\ pc = "loop" => (pc' = "open" /\ attempts' = attempts + 1)
    /\ Ended => attempts' = attempts

\* C1: every step keeps the attempts within the budget of 3
C1_AtMostThreeAttempts == [][C1_Step]_vars

\* three attempts that each wrote their frame and then failed
C1_Witness ==
    /\ pc = "returned"
    /\ result = Err(ErrRetryStalled(MAX_TX_RETRIES))
    /\ attempts = 3
    /\ writes = 3

\* ------------------------------------------------------------------------
\* C2: an open that fails with NoDevice ends temp_calibrate at once, on
\* any attempt: the error itself is returned, the retry counter keeps its
\* value, nothing is printed by temp_calibrate and no attempt follows.
\* ------------------------------------------------------------------------
C2_Step ==
    /\ (pc = "match" /\ DeviceUnavailable(run_result)) =>
          /\ pc' = "returned"
          /\ result' = run_result
          /\ retries' = retries
          /\ stdout' = stdout
    /\ (Ended /\ DeviceUnavailable(result)) =>
          /\ attempts' = attempts
          /\ opens' = opens
          /\ retries' = retries
          /\ result' = result
    /\ (Ended' /\ DeviceUnavailable(result')) =>
          retries' = MAX_TX_RETRIES - (attempts' - 1)

\* C2: every step treats a NoDevice open failure as terminal
C2_NoDeviceIsTerminal == [][C2_Step]_vars

\* NoDevice on the 3rd attempt, after two failures that were retried
C2_Witness ==
    /\ pc = "exit"
    /\ DeviceUnavailable(result)
    /\ attempts = 3
    /\ retries = 1

\* ------------------------------------------------------------------------
\* C3: temp_calibrate returns Ok exactly when an attempt read the one byte
\* ACK; that attempt is the last one: after it nothing is opened, written
\* or read and no attempt is started.
\* ------------------------------------------------------------------------
C3_State ==
    /\ acks <= 1
    /\ result = Ok => acks = 1
    /\ (Ended /\ acks = 1) => result = Ok
    /\ acks = 1 => pc \in {"classify", "match", "returned", "exit"}

C3_Step ==
    /\ C3_State'
    /\ acks = 1 =>
          /\ attempts' = attempts
          /\ opens' = opens
          /\ writes' = writes
          /\ reads' = reads

\* C3: every step keeps success and the one-byte ACK together
C3_SuccessIffAck == [][C3_Step]_vars

\* an ACK on the 3rd attempt, after two failures
C3_Witness ==
    /\ pc = "exit"
    /\ result = Ok
    /\ attempts = 3
    /\ acks = 1

\* ------------------------------------------------------------------------
\* C4: the classification of (byte count, first byte): one byte ACK is the
\* only success; one byte NACK, one other byte and every other count, also
\* with ACK as first byte, are protocol errors, and a protocol error is
\* retried (it takes one unit of the budget, it never ends in success).
\* ------------------------------------------------------------------------
C4_Step ==
    /\ pc = "classify" =>
          /\ pc' = "match"
          /\ IF read_bytes = 1 /\ received[1] = OPCODE_ACK
             THEN run_result' = Ok
             ELSE /\ run_result'.tag = "Err"
                  /\ run_result'.err.variant = "BikecomputerProto"
    /\ (pc = "match" /\ run_result.tag = "Err"
                     /\ run_result.err.variant = "BikecomputerProto") =>
          /\ retries' = retries - 1
          /\ result' # Ok
          /\ IF retries' = 0 THEN pc' = "returned" ELSE pc' = "loop"

\* C4: every step classifies the answer as stated
C4_ClassificationTotal == [][C4_Step]_vars

\* BufLen bytes were read, the first of them ACK: a protocol error
C4_Witness ==
    /\ pc = "match"
    /\ run_result = Err(ErrProto("Expected 1 ACK/NACK byte", BufLen))
    /\ acks = 0

\* ------------------------------------------------------------------------
\* CRC16/XMODEM as its definition: the remainder of the message, followed
\* by 16 zero bits, divided by x^16 + x^12 + x^5 + 1 over GF(2), most
\* significant bit first, initial value 0.
\* ------------------------------------------------------------------------
XmodemDivisor == << 1, 0, 0, 0, 1, 0, 0, 0, 0, 0, 0, 1, 0, 0, 0, 0, 1 >>

RECURSIVE BitsOf(_, _)
BitsOf(v, n) ==
    IF n = 0 THEN << >> ELSE Append(BitsOf(v \div 2, n - 1), v % 2)

RECURSIVE BitsOfBytes(_)
BitsOfBytes(bytes) ==
    IF bytes = << >> THEN << >>
    ELSE BitsOf(Head(bytes), 8) \o BitsOfBytes(Tail(bytes))

RECURSIVE ValueOf(_)
ValueOf(bits) ==
    IF bits = << >> THEN 0
    ELSE 2 * ValueOf(SubSeq(bits, 1, Len(bits) - 1)) + bits[Len(bits)]

RECURSIVE Gf2Divide(_, _)
Gf2Divide(bits, i) ==
    IF i > Len(bits) - 16 THEN bits
    ELSE Gf2Divide(IF bits[i] = 1
                   THEN [j \in 1 .. Len(bits) |->
                            IF j >= i /\ j <= i + 16
                            THEN (bits[j] + XmodemDivisor[j - i + 1]) % 2
                            ELSE bits[j]]
                   ELSE bits, i + 1)

XmodemRemainder(bytes) ==
    LET bits == BitsOfBytes(bytes) \o BitsOf(0, 16)
        rest == Gf2Divide(bits, 1)
    IN ValueOf(SubSeq(rest, Len(rest) - 15, Len(rest)))

\* the little-endian u16 in bytes i, i + 1 of a frame (bytes counted from 0)
U16At(frame, i) == frame[i + 1] + 256 * frame[i + 2]

\* the two's-complement reading of a u16
AsI16(u) == IF u >= 32768 THEN u - U16Mod ELSE u

\* the checksum the frame of this run should carry
CorrectChecksum ==
    XmodemRemainder(<< 2 >> \o
        << (args.current_temperature % U16Mod) % 256,
           (args.current_temperature % U16Mod) \div 256 >>)

Written == pc \in {"read", "classify"}

\* ------------------------------------------------------------------------
\* C5: with no fault injected the link gets exactly 6 bytes: 0xFF, 0x02,
\* the temperature as little-endian two's complement, and the little-endian
\* CRC16/XMODEM of bytes 1..3 of the frame.
\* ------------------------------------------------------------------------
C5_FrameLayout ==
    (Written /\ ~fakeissue) =>
        /\ Len(tx) = 6
        /\ tx[1] = 255
        /\ tx[2] = 2
        /\ tx[3] \in 0 .. 255 /\ tx[4] \in 0 .. 255
        /\ AsI16(U16At(tx, 2)) = args.current_temperature
        /\ tx[5] \in 0 .. 255 /\ tx[6] \in 0 .. 255
        /\ U16At(tx, 4) = XmodemRemainder(<< tx[2], tx[3], tx[4] >>)

\* the frame of the lowest temperature, written with fault injection asked
\* for but not drawn
C5_Witness ==
    /\ pc = "read"
    /\ ~fakeissue
    /\ args.fakeissue = 50
    /\ args.current_temperature = -32768
    /\ tx = << 255, 2, 0, 128, 232, 255 >>

\* ------------------------------------------------------------------------
\* C6: when the fault injection fires, the attempt does not abort and the
\* checksum sent in bytes 4-5 of a 6-byte frame is the correct checksum
\* plus 10, modulo 65536.
\* ------------------------------------------------------------------------
C6_CorruptionWraps ==
    (fakeissue /\ pc # "corrupt") =>
        /\ pc # "panicked"
        /\ checksum = (CorrectChecksum + 10) % U16Mod
        /\ Written => (Len(tx) = 6 /\ U16At(tx, 4) = checksum)

\* ------------------------------------------------------------------------
\* C7: the fault is injected exactly when the drawn value is strictly below
\* the probability: never without a probability, never with probability 0,
\* on every attempt with probability 100; and the frame handed to the link
\* carries a wrong checksum exactly when the fault is injected.
\* ------------------------------------------------------------------------
Decided == pc \in {"corrupt", "append", "write", "read", "classify"}

Assembled == pc \in {"write", "read", "classify"}

C7_FaultDecision ==
    /\ pc = "corrupt" =>
          /\ (args.fakeissue = None) = (random_value = None)
          /\ fakeissue = (/\ args.fakeissue # None
                          /\ random_value < args.fakeissue)
    /\ (Decided /\ args.fakeissue \in {None, 0}) => ~fakeissue
    /\ (Decided /\ args.fakeissue = 100) => fakeissue
    /\ Assembled =>
          /\ Len(message) = 6
          /\ fakeissue = (U16At(message, 4) # CorrectChecksum)
    /\ Written => tx = message

\* probability 100: the frame of the 2nd attempt is corrupted as well
C7_Witness ==
    /\ pc = "read"
    /\ args.fakeissue = 100
    /\ attempts = 2
    /\ fakeissue
    /\ U16At(tx, 4) # CorrectChecksum

\* ------------------------------------------------------------------------
\* C8: the draw is uniform on 0..99: every value comes from the same number
\* of values of the random u8, so that probability p injects the fault in
\* exactly p of 100 equally weighted cases.
\* ------------------------------------------------------------------------
Outcomes(v) == { r \in U8 : RandomValue(r) = v }

C8_UniformDraw ==
    (pc = "corrupt" /\ random_value # None) =>
        /\ \A v \in 0 .. 99 :
              Cardinality(Outcomes(v)) = Cardinality(Outcomes(random_value))
        /\ 100 * Cardinality({ r \in U8 : FakeIssue(args.fakeissue, RandomValue(r)) })
              = args.fakeissue * Cardinality(U8)

\* ------------------------------------------------------------------------
\* C9: at most one handle of the port is open; an attempt opens a fresh one
\* and it is closed when the attempt ends, whatever its outcome, before the
\* next attempt starts and before temp_calibrate returns.
\* ------------------------------------------------------------------------
C9_OneHandle ==
    /\ port \in {0, 1}
    /\ opens <= attempts
    /\ port = 1 => pc \in {"frame", "decide", "corrupt", "append", "write",
                           "read", "classify"}
    /\ pc \in {"frame", "decide", "corrupt", "append", "write", "read",
               "classify"} => port = 1
    /\ pc \in {"loop", "open", "match", "returned", "exit", "panicked"} =>
          (port = 0 /\ tx = << >>)

\* two attempts have opened and closed their handle, the 3rd is to start
C9_Witness ==
    /\ pc = "loop"
    /\ attempts = 2
    /\ opens = 2
    /\ writes = 2
    /\ port = 0

\* ------------------------------------------------------------------------
\* C10 as stated: a write or read error of a vanished device ends
\* temp_calibrate at once, with that error and the retry counter untouched;
\* every other write or read error is retried.
\* ------------------------------------------------------------------------
DeviceVanished(r) == r.tag = "Err" /\ r.err = ErrIo("NotFound")

C10_VanishedStep ==
    /\ (pc = "match" /\ DeviceVanished(run_result)) =>
          /\ pc' = "returned"
          /\ result' = run_result
          /\ retries' = retries
    /\ (pc = "match" /\ run_result.tag = "Err" /\ run_result.err.variant = "Io"
                     /\ ~DeviceVanished(run_result)) =>
          retries' = retries - 1

\* C10: as stated, every step treats a vanished device as fatal
C10_VanishedIsFatal == [][C10_VanishedStep]_vars

\* ------------------------------------------------------------------------
\* C10 as amended: every write or read error, the one of a vanished device
\* included, is retried: it takes one unit of the budget, is printed, and
\* the next attempt follows unless the budget is thereby spent, in which
\* case RetryStalled is returned.
\* ------------------------------------------------------------------------
C10_IoStep ==
    (pc = "match" /\ run_result.tag = "Err" /\ run_result.err.variant = "Io") =>
        /\ retries' = retries - 1
        /\ Len(stdout') > Len(stdout)
        /\ stdout'[Len(stdout) + 1] = Line("An error occurred", run_result.err, 0)
        /\ IF retries' = 0
           THEN pc' = "returned" /\ result' = Err(ErrRetryStalled(MAX_TX_RETRIES))
           ELSE pc' = "loop" /\ result' = Pending

\* C10: as amended, every step retries a write or read error
C10_IoErrorsRetried == [][C10_IoStep]_vars

\* the write or read of the 1st attempt failed on a vanished device and the
\* 2nd attempt has been started
C10_Witness ==
    /\ attempts = 2
    /\ pc = "open"
    /\ retries = 2
    /\ stdout[2] = Line("An error occurred", ErrIo("NotFound"), 0)

\* ------------------------------------------------------------------------
\* C11: every failed open, whatever the kind of its error, ends
\* temp_calibrate at once with that error: the retry counter keeps its
\* value and the port is not opened again.
\* ------------------------------------------------------------------------
OpenFailed(r) == r.tag = "Err" /\ r.err.variant = "Serial"

C11_OpenStep ==
    /\ (pc = "match" /\ OpenFailed(run_result)) =>
          /\ pc' = "returned"
          /\ result' = run_result
          /\ retries' = retries
    /\ (Ended /\ OpenFailed(result)) => (attempts' = attempts /\ opens' = opens)

\* C11: every step treats a failed open as terminal
C11_OpenFailureIsFatal == [][C11_OpenStep]_vars

\* ------------------------------------------------------------------------
\* C12: the error of an exhausted budget is RetryStalled(3): it carries the
\* budget, not the counter (0 by then); it is returned after exactly 3
\* failed attempts; the cause of the last failure is another error, which
\* is printed by temp_calibrate and not returned.
\* ------------------------------------------------------------------------
ErrorLines(out) == { i \in 1 .. Len(out) : out[i].text = "An error occurred" }

LastErrorLine(out) ==
    out[CHOOSE i \in ErrorLines(out) : \A j \in ErrorLines(out) : j <= i]

BudgetExhausted(r) == r.tag = "Err" /\ r.err.variant = "RetryStalled"

C12_RetryStalled ==
    BudgetExhausted(result) =>
        /\ result.err = ErrRetryStalled(3)
        /\ retries = 0
        /\ attempts = 3
        /\ acks = 0
        /\ Cardinality(ErrorLines(stdout)) = 3
        /\ LastErrorLine(stdout).err # result.err
        /\ LastErrorLine(stdout).err.variant \in {"Io", "Serial", "BikecomputerProto"}
        /\ \A i \in 1 .. Len(stdout) :
              stdout[i].err = result.err => (stdout[i].text = "Exiting" /\ i = Len(stdout))

\* the budget is spent, the last cause was a NACK, main has reported
C12_Witness ==
    /\ pc = "exit"
    /\ BudgetExhausted(result)
    /\ LastErrorLine(stdout).err = ErrProto("Received NACK", 0)
    /\ stdout[Len(stdout)] = Line("Exiting", ErrRetryStalled(3), 0)

\* ------------------------------------------------------------------------
\* C13: within an attempt the steps are open, write, read, classify, in
\* this order: a frame is written only through an open handle and once per
\* attempt, the read follows a successful write and happens once, only what
\* was read is classified, and an attempt that fails at a step does none
\* of the later ones.
\* ------------------------------------------------------------------------
C13_Step ==
    \* one attempt is one pass from the loop top
    /\ pc' = "open" => (pc = "loop" /\ attempts' = attempts + 1)
    /\ attempts' # attempts => pc = "loop"
    \* open
    /\ opens' # opens => (pc = "open" /\ opens' = opens + 1 /\ port' = 1)
    /\ pc = "open" => \/ pc' = "frame" /\ opens' = opens + 1
                      \/ pc' = "match" /\ OpenFailed(run_result')
                                       /\ opens' = opens
    \* write: after the open, once, the whole frame
    /\ pc' = "write" => pc = "append"
    /\ writes' # writes =>
          /\ pc = "write" /\ pc' = "read"
          /\ writes' = writes + 1
          /\ port = 1 /\ opens > writes
          /\ tx = << >> /\ tx' = message
    /\ pc = "write" => \/ pc' = "read" /\ writes' = writes + 1
                       \/ pc' = "match" /\ run_result'.err.variant = "Io"
    \* read: after the write, once
    /\ pc' = "read" => pc = "write"
    /\ reads' # reads =>
          /\ pc = "read" /\ pc' = "classify"
          /\ reads' = reads + 1
          /\ writes > reads /\ Len(tx) = 6
    /\ pc = "read" => \/ pc' = "classify" /\ reads' = reads + 1
                      \/ pc' = "match" /\ run_result'.err.variant = "Io"
    \* classify: what was read, once
    /\ pc' = "classify" => pc = "read"
    /\ pc = "classify" => pc' = "match"
    /\ (pc' = "match" /\ (run_result' = Ok
                          \/ run_result'.err.variant = "BikecomputerProto")) =>
          pc = "classify"
    \* a failed step is the attempt's last step
    /\ pc' = "match" =>
          (opens' = opens /\ writes' = writes /\ reads' = reads /\ port' = 0)
    /\ pc = "match" =>
          (opens' = opens /\ writes' = writes /\ reads' = reads
           /\ pc' \in {"loop", "returned"})
    /\ (reads' <= writes' /\ writes' <= opens' /\ opens' <= attempts')

\* C13: every step keeps the order open, write, read, classify
C13_StepOrder == [][C13_Step]_vars

\* the 2nd attempt has opened, written once and read once; the 1st one
\* failed at its write
C13_Witness ==
    /\ pc = "classify"
    /\ attempts = 2
    /\ opens = 2
    /\ writes = 1
    /\ reads = 1
    /\ Len(tx) = 6

\* ------------------------------------------------------------------------
\* C14: only the retry counter is carried from one attempt to the next.
\* The request never changes; between two attempts no local of
\* temp_calibrate_run holds a value and no handle is open; every attempt
\* builds its frame from the request's temperature; and with a probability
\* strictly between 0 and 100 every attempt's draw can inject the fault and
\* can leave the frame alone, whatever the attempts before it did.
\* ------------------------------------------------------------------------
BetweenAttempts == pc \in {"loop", "open", "match"}

C14_State ==
    /\ BetweenAttempts =>
          /\ message = << >> /\ checksum = 0
          /\ random_value = None /\ fakeissue = FALSE
          /\ read_bytes = 0 /\ received = << >>
          /\ port = 0 /\ tx = << >>
    /\ pc \in {"decide", "corrupt", "append", "write", "read", "classify"} =>
          /\ message[1] = 255 /\ message[2] = 2
          /\ AsI16(U16At(message, 2)) = args.current_temperature
    /\ (pc = "decide" /\ args.fakeissue \notin {None, 0, 100}) =>
          /\ ENABLED (Decide /\ fakeissue')
          /\ ENABLED (Decide /\ ~fakeissue')

C14_Step ==
    /\ args' = args
    /\ C14_State'
    /\ (pc = "match" /\ pc' = "loop") =>
          (retries' # retries /\ UNCHANGED << locals, port, tx >>)

\* C14: every step leaves the request alone and starts the next attempt
\* from scratch
C14_OnlyCounterCarried == [][C14_Step]_vars

\* the frame of the 3rd attempt is corrupted by its own draw, after two
\* attempts that failed
C14_Witness ==
    /\ pc = "read"
    /\ attempts = 3
    /\ retries = 1
    /\ args.fakeissue = 50
    /\ fakeissue
    /\ AsI16(U16At(tx, 2)) = args.current_temperature

\* ------------------------------------------------------------------------
\* C15: when the number of bytes read is not 1, the error that reports it
\* carries the byte count and a copy of the bytes that were read.
\* ------------------------------------------------------------------------
ReportedCount(e) == e.arg

\* the bytes a BikecmdError carries: its variants hold a string built from
\* the count, or from the one byte, and nothing else
ReportedBytes(e) == IF "bytes" \in DOMAIN e THEN e.bytes ELSE << >>

C15_Step ==
    (pc = "classify" /\ read_bytes # 1) =>
        /\ run_result'.tag = "Err"
        /\ ReportedCount(run_result'.err) = read_bytes
        /\ ReportedBytes(run_result'.err) = received

\* C15: every classification of a count other than 1 reports the bytes read
C15_MalformedCarriesBytes == [][C15_Step]_vars

\* ------------------------------------------------------------------------
\* C16: no error is swallowed.  The error of every failed attempt is either
\* printed by temp_calibrate ("An error occurred") or returned by it, and
\* every error temp_calibrate returns is printed by main ("Exiting"); what
\* was printed stays printed.  When the program ends, the errors printed
\* are as many as the attempts that failed.
\* ------------------------------------------------------------------------
Printed(out, text, e) ==
    \E i \in 1 .. Len(out) : out[i] = Line(text, e, 0)

FailedAttempts == attempts - (IF result = Ok THEN 1 ELSE 0)

C16_AtExit ==
    pc = "exit" =>
        /\ result.tag = "Err" => stdout[Len(stdout)] = Line("Exiting", result.err, 0)
        /\ Cardinality(ErrorLines(stdout))
              + (IF result.tag = "Err" /\ ~BudgetExhausted(result) THEN 1 ELSE 0)
           = FailedAttempts

C16_Step ==
    /\ Len(stdout') >= Len(stdout)
    /\ SubSeq(stdout', 1, Len(stdout)) = stdout
    /\ (pc = "match" /\ run_result.tag = "Err") =>
          \/ /\ Len(stdout') > Len(stdout)
             /\ stdout'[Len(stdout) + 1] = Line("An error occurred", run_result.err, 0)
          \/ /\ pc' = "returned"
             /\ result' = run_result
    /\ (pc = "returned" /\ result.tag = "Err") =>
          /\ pc' = "exit"
          /\ stdout' = Append(stdout, Line("Exiting", result.err, 0))
    /\ C16_AtExit'

\* C16: every step reports the error it handles
C16_NoErrorSwallowed == [][C16_Step]_vars

\* the 1st attempt timed out and was printed, the 2nd found no device: its
\* error was returned and printed by main
C16_Witness ==
    /\ pc = "exit"
    /\ attempts = 2
    /\ Printed(stdout, "An error occurred", ErrIo("TimedOut"))
    /\ result = Err(ErrSerial("NoDevice"))
    /\ stdout[Len(stdout)] = Line("Exiting", ErrSerial("NoDevice"), 0)

\* ------------------------------------------------------------------------
\* C17: the exit status tells the outcome: it is the status of success
\* exactly when temp_calibrate returned Ok, and another one when it
\* returned an error.
\* ------------------------------------------------------------------------
C17_ExitStatus ==
    pc = "exit" => ((exit_status = 0) <=> (result = Ok))

\* ------------------------------------------------------------------------
\* C18: the retry counter.  While an attempt is due or running it is in
\* 1..3 and is 3 less the failures retried so far; it changes only when a
\* failure is retried, by one, from a value of at least 1 (no underflow);
\* "Retrying N more time(s)" is printed with N in 1..2 only; and
\* temp_calibrate ends, given that every attempt returns.
\* ------------------------------------------------------------------------
Retried == Cardinality(ErrorLines(stdout))

C18_State ==
    /\ retries \in 0 .. MAX_TX_RETRIES
    /\ pc = "loop" => (retries \in 1 .. 3 /\ retries = 3 - attempts)
    /\ InRun => (retries \in 1 .. 3 /\ retries = 3 - (attempts - 1))
    /\ (pc = "loop" \/ InRun) => retries = 3 - Retried
    /\ \A i \in 1 .. Len(stdout) :
          stdout[i].text = "Retrying" => stdout[i].n \in 1 .. 2

C18_Step ==
    retries' # retries =>
        /\ pc = "match"
        /\ run_result.tag = "Err"
        /\ ~DeviceUnavailable(run_result)
        /\ retries >= 1
        /\ retries' = retries - 1

Terminated == pc \in {"exit", "panicked"}

\* Termination as a finite-run property: a measure built from the counter
\* and the place in the program is never negative and gets smaller with
\* every step, and a step is possible until the program has ended.
Rank(p) ==
    CASE p = "loop" -> 12 [] p = "open" -> 11 [] p = "frame" -> 10
      [] p = "decide" -> 9 [] p = "corrupt" -> 8 [] p = "append" -> 7
      [] p = "write" -> 6 [] p = "read" -> 5 [] p = "classify" -> 4
      [] p = "match" -> 3 [] p = "returned" -> 2 [] p = "exit" -> 1
      [] p = "panicked" -> 0

Measure == 13 * retries + Rank(pc)

\* BuildFrame has no guard but pc = "frame"; the other actions are asked for
NotStuck ==
    \/ Terminated
    \/ pc = "frame"
    \/ ENABLED (\/ LoopTop \/ OpenOk \/ OpenErr \/ Decide \/ Corrupt
                \/ CorruptPanic \/ AppendChecksum \/ WriteOk \/ WriteErr
                \/ ReadOk \/ ReadErr \/ ClassifyResponse \/ MatchOk
                \/ MatchFatal \/ MatchRetry \/ MainReport)

C18_Progress ==
    /\ Measure' < Measure
    /\ Measure' >= 0
    /\ NotStuck'

\* C18: the counter's invariant, its steps, and termination
C18_RetryCounter == [][C18_State' /\ C18_Step /\ C18_Progress]_vars

\* the 3rd attempt is running with the counter at 1, after "Retrying 2" and
\* "Retrying 1"
C18_Witness ==
    /\ pc = "frame"
    /\ attempts = 3
    /\ retries = 1
    /\ Retried = 2
    /\ stdout[Len(stdout) - 1] = Line("Retrying", NoError, 1)

====
